---- MODULE Spec2Model ----
(***************************************************************************)
(* Cafe voucher issuance: the state held by the App component of           *)
(* src/src/App.tsx (roster, voucher ledger, selection, active voucher,     *)
(* page), the two localStorage records behind useLocalStorageState, and    *)
(* one action per event handler.  React flushes the state updates of a     *)
(* click before the next event is dispatched, so each handler, with the    *)
(* updaters it queues and the storage writes those updaters perform, is    *)
(* one step.  What lies inside a step and is the subject of a property --  *)
(* the point between the two updaters of an issuance, the writes that      *)
(* threw -- is recorded in lastOp.                                         *)
(***************************************************************************)
EXTENDS Integers, Sequences, FiniteSets, TLC

VARIABLES
    students,           \* Student[]            (App.tsx 203)
    vouchers,           \* Voucher[]            (App.tsx 208)
    selectedStudentId,  \* string               (App.tsx 213)
    activeVoucher,      \* Voucher | null       (App.tsx 217)
    page,               \* "issue" | "log"      (App.tsx 201)
    storage,            \* window.localStorage, the two keys the app uses
    cryptoAvailable,    \* does crypto.randomUUID exist in this browser
    now,                \* the wall clock, in milliseconds
    lastOp,             \* the handler that ran last, with what it was given
                        \* and what happened inside it
    nOps                \* number of handler calls so far

vars == <<students, vouchers, selectedStudentId, activeVoucher, page,
          storage, cryptoAvailable, now, lastOp, nOps>>

----------------------------------------------------------------------------
(* Bounds of the exploration *)

MaxOps == 3          \* handler calls in one behaviour
MaxClock == 2        \* last clock value; a session starts at 1
MaxRandom == 2       \* distinct outcomes of the random source
MaxDelta == 3        \* size of the largest decrement handed to adjustCommendations

----------------------------------------------------------------------------
(* Program constants *)

TARGET_COMMENDATIONS == 5
VOUCHER_AMOUNT_PENCE == 290

DEMO_STUDENTS ==
    << [id |-> "s1", name |-> "Alice Johnson",  commendations |-> 3],
       [id |-> "s2", name |-> "Ben Carter",     commendations |-> 5],
       [id |-> "s3", name |-> "Chloe Singh",    commendations |-> 1],
       [id |-> "s4", name |-> "Daniel O'Neill", commendations |-> 4] >>

STUDENTS_KEY == "cafe-voucher-students"
LOG_KEY == "cafe-voucher-log"

NullVoucher == [null |-> TRUE]

Max(a, b) == IF a >= b THEN a ELSE b

----------------------------------------------------------------------------
(* Array helpers, as the handlers use them *)

\* index of the first element with this id, 0 when there is none
\* (Array.prototype.find returns that element, or undefined)
FindIndex(s, id) ==
    IF \E i \in 1..Len(s) : s[i].id = id
    THEN CHOOSE i \in 1..Len(s) :
            /\ s[i].id = id
            /\ \A j \in 1..(i - 1) : s[j].id # id
    ELSE 0

----------------------------------------------------------------------------
(* window.localStorage and useLocalStorageState *)

Missing == [kind |-> "missing"]     \* getItem returns null
Corrupt == [kind |-> "corrupt"]     \* a string JSON.parse throws on

\* JSON.stringify of an array of flat objects: each object becomes its set of
\* key/value pairs
Stringify(value) ==
    [kind |-> "json",
     text |-> [i \in 1..Len(value) |->
                  {<<k, value[i][k]>> : k \in DOMAIN value[i]}]]

\* JSON.parse of such a text
Parse(text) ==
    [i \in 1..Len(text) |->
        [k \in {p[1] : p \in text[i]} |->
            (CHOOSE p \in text[i] : p[1] = k)[2]]]

\* an initialiser that gives the empty list for a record it cannot parse
LoadState_EmptyOnCorrupt(stored, defaultValue) ==
    IF stored.kind = "missing" THEN defaultValue
    ELSE IF stored.kind = "corrupt" THEN <<>>
    ELSE Parse(stored.text)

\* the initialiser of useState in useLocalStorageState
LoadState(stored, defaultValue) ==
    IF stored.kind = "missing" THEN defaultValue
    ELSE IF stored.kind = "corrupt" THEN defaultValue
    ELSE Parse(stored.text)

\* an updater that keeps the previous value when the write threw
SetAndStoreValue_RollBack(previous, nextValue, writeOk) ==
    IF writeOk THEN nextValue ELSE previous

\* the value the updater inside setAndStore returns to React: nextValue,
\* whether or not the write threw
SetAndStoreValue(previous, nextValue, writeOk) == nextValue

\* a write that puts every collection under the key of the roster
SetAndStore_OneKey(store, key, nextValue, writeOk) ==
    IF writeOk
    THEN [store EXCEPT !["cafe-voucher-students"] = Stringify(nextValue)]
    ELSE store

\* the storage after setAndStore's write of nextValue under key; a write that
\* throws (writeOk = FALSE) is ignored
SetAndStore(store, key, nextValue, writeOk) ==
    IF writeOk THEN [store EXCEPT ![key] = Stringify(nextValue)] ELSE store

----------------------------------------------------------------------------
(* Identifiers and the voucher record *)

\* generateId: crypto.randomUUID() when it exists, else a random string
\* followed by the clock in base 36
generateId(hasCrypto, random, time) ==
    IF hasCrypto THEN <<"uuid", random>> ELSE <<"rand", random, time>>

\* a voucher that takes the name from the seed roster instead of the roster
\* of the session
NewVoucher_SeedName(student, id, nowIso) ==
    [id |-> id,
     studentId |-> student.id,
     studentName |-> IF FindIndex(DEMO_STUDENTS, student.id) # 0
                     THEN DEMO_STUDENTS[FindIndex(DEMO_STUDENTS,
                                                  student.id)].name
                     ELSE student.name,
     issuedAt |-> nowIso,
     amountPence |-> VOUCHER_AMOUNT_PENCE,
     redeemed |-> FALSE]

NewVoucher(student, id, nowIso) ==
    [id |-> id,
     studentId |-> student.id,
     studentName |-> student.name,
     issuedAt |-> nowIso,
     amountPence |-> VOUCHER_AMOUNT_PENCE,
     redeemed |-> FALSE]

----------------------------------------------------------------------------
(* Values derived on every render *)

NullStudent == [null |-> TRUE]

\* a lookup by id alone, without the ?? students[0] of the source
SelectedStudentOf_NoFallback(roster, selectedId) ==
    IF FindIndex(roster, selectedId) # 0
    THEN roster[FindIndex(roster, selectedId)]
    ELSE NullStudent

\* students.find(...) ?? students[0] ?? null
SelectedStudentOf(roster, selectedId) ==
    IF FindIndex(roster, selectedId) # 0
    THEN roster[FindIndex(roster, selectedId)]
    ELSE IF Len(roster) > 0 THEN roster[1]
    ELSE NullStudent

selectedStudent == SelectedStudentOf(students, selectedStudentId)

CanIssueOf_OffByOne(student) ==
    /\ student # NullStudent
    /\ student.commendations >= TARGET_COMMENDATIONS - 1

CanIssueOf(student) ==
    /\ student # NullStudent
    /\ student.commendations >= TARGET_COMMENDATIONS

\* an eligibility read from the stored roster instead of the roster in memory
canIssue_Stored ==
    CanIssueOf(SelectedStudentOf(LoadState(storage[STUDENTS_KEY],
                                           DEMO_STUDENTS),
                                 selectedStudentId))

canIssue == CanIssueOf(selectedStudent)

----------------------------------------------------------------------------
(* The updaters the handlers hand to setStudents and setVouchers *)

AdjustUpdater_NoClamp(previous, id, delta) ==
    [i \in 1..Len(previous) |->
        LET student == previous[i] IN
        IF student.id = id
        THEN [student EXCEPT
                !.commendations = student.commendations + delta]
        ELSE student]

AdjustUpdater_Inverted(previous, id, delta) ==
    [i \in 1..Len(previous) |->
        LET student == previous[i] IN
        IF student.id # id
        THEN [student EXCEPT
                !.commendations = Max(0, student.commendations + delta)]
        ELSE student]

AdjustUpdater_Capped(previous, id, delta) ==
    [i \in 1..Len(previous) |->
        LET student == previous[i] IN
        IF student.id = id
        THEN [student EXCEPT
                !.commendations =
                    IF student.commendations + delta > TARGET_COMMENDATIONS
                    THEN TARGET_COMMENDATIONS
                    ELSE Max(0, student.commendations + delta)]
        ELSE student]

\* an adjustment that takes a student whose balance reaches 0 off the roster
AdjustUpdater_DropAtZero(previous, id, delta) ==
    SelectSeq([i \in 1..Len(previous) |->
                  LET student == previous[i]
                  IN  IF student.id # id THEN student
                      ELSE [student EXCEPT
                               !.commendations =
                                   Max(0, student.commendations + delta)]],
              LAMBDA student : student.id # id \/ student.commendations > 0)

AdjustUpdater(previous, id, delta) ==
    [i \in 1..Len(previous) |->
        LET student == previous[i] IN
        IF student.id = id
        THEN [student EXCEPT
                !.commendations = Max(0, student.commendations + delta)]
        ELSE student]

DebitUpdater_Reset(previous, id) ==
    [i \in 1..Len(previous) |->
        LET student == previous[i] IN
        IF student.id = id
        THEN [student EXCEPT !.commendations = 0]
        ELSE student]

\* a debit of one commendation per voucher
DebitUpdater_ByOne(previous, id) ==
    [i \in 1..Len(previous) |->
        LET student == previous[i]
        IN  IF student.id # id THEN student
            ELSE [student EXCEPT
                     !.commendations = Max(0, student.commendations - 1)]]

\* a debit that looks the student up by the selected id instead of the id of
\* the selected student
DebitUpdater_BySelectedId(previous, id) ==
    [i \in 1..Len(previous) |->
        LET student == previous[i]
        IN  IF student.id # selectedStudentId THEN student
            ELSE [student EXCEPT
                     !.commendations =
                         Max(0, student.commendations - TARGET_COMMENDATIONS)]]

DebitUpdater(previous, id) ==
    [i \in 1..Len(previous) |->
        LET student == previous[i] IN
        IF student.id = id
        THEN [student EXCEPT
                !.commendations =
                    Max(0, student.commendations - TARGET_COMMENDATIONS)]
        ELSE student]

PrependUpdater_Twice(previous, voucher) == <<voucher, voucher>> \o previous

PrependUpdater_Append(previous, voucher) == previous \o <<voucher>>

PrependUpdater(previous, voucher) == <<voucher>> \o previous

ToggleUpdater_Restamp(previous, voucherId) ==
    [i \in 1..Len(previous) |->
        LET voucher == previous[i] IN
        IF voucher.id = voucherId
        THEN [voucher EXCEPT !.redeemed = ~voucher.redeemed,
                             !.issuedAt = voucher.issuedAt + 1]
        ELSE voucher]

ToggleUpdater_SetTrue(previous, voucherId) ==
    [i \in 1..Len(previous) |->
        LET voucher == previous[i] IN
        IF voucher.id = voucherId
        THEN [voucher EXCEPT !.redeemed = TRUE]
        ELSE voucher]

ToggleUpdater_Remove(previous, voucherId) ==
    SelectSeq(previous, LAMBDA voucher : voucher.id # voucherId)

\* a toggle without the comparison of ids
ToggleUpdater_All(previous, voucherId) ==
    [i \in 1..Len(previous) |->
        [previous[i] EXCEPT !.redeemed = ~previous[i].redeemed]]

ToggleUpdater(previous, voucherId) ==
    [i \in 1..Len(previous) |->
        LET voucher == previous[i] IN
        IF voucher.id = voucherId
        THEN [voucher EXCEPT !.redeemed = ~voucher.redeemed]
        ELSE voucher]

----------------------------------------------------------------------------
(* What earlier sessions, or the seeding of the roster, may have left in     *)
(* storage; the earlier session issued its voucher at time 0                 *)

PriorRoster ==
    << [id |-> "s2", name |-> "Benjamin Carter", commendations |-> 12],
       [id |-> "s3", name |-> "Chloe Singh",     commendations |-> 0] >>

PriorLedger(hasCrypto) ==
    << [id |-> generateId(hasCrypto, 1, 0),
        studentId |-> "s2",
        studentName |-> "Ben Carter",
        issuedAt |-> 0,
        amountPence |-> VOUCHER_AMOUNT_PENCE,
        redeemed |-> FALSE] >>

\* the contents of the two keys when a session starts: a first run, a corrupt
\* or an empty record beside a readable one, and the records of an earlier
\* session
InitialStorages(hasCrypto) ==
    { (STUDENTS_KEY :> r) @@ (LOG_KEY :> l) :
        <<r, l>> \in
          { <<Missing, Missing>>,
            <<Corrupt, Stringify(PriorLedger(hasCrypto))>>,
            <<Stringify(PriorRoster), Corrupt>>,
            <<Stringify(<<>>), Stringify(<<>>)>>,
            <<Stringify(PriorRoster), Stringify(PriorLedger(hasCrypto))>> } }

UnknownStudentId == "s9"
UnknownVoucherId == <<"uuid", 0>>

\* the row buttons pass -1 and +1; the handler takes any number
Deltas == {0 - 1, 1, 0 - MaxDelta}

\* the record of a handler call: its name and arguments, the keys whose
\* write threw, the points an issuance can pass through between its two
\* updaters (mids), and the run of consecutive issue requests it belongs to
Op(name, ok, target, before, delta) ==
    [op |-> name, ok |-> ok, target |-> target, before |-> before,
     delta |-> delta, failed |-> {}, mids |-> {}, run |-> 0,
     runStart |-> 0]

Failed(key, writeOk) == IF writeOk THEN {} ELSE {key}

----------------------------------------------------------------------------
(* Construction of a session: App's useState / useLocalStorageState calls *)

InitialStudents(store) == LoadState(store[STUDENTS_KEY], DEMO_STUDENTS)
InitialVouchers(store) == LoadState(store[LOG_KEY], <<>>)
InitialSelectedStudentId == DEMO_STUDENTS[1].id

Init ==
    /\ cryptoAvailable \in BOOLEAN
    /\ storage \in InitialStorages(cryptoAvailable)
    /\ students = InitialStudents(storage)
    /\ vouchers = InitialVouchers(storage)
    /\ selectedStudentId = InitialSelectedStudentId
    /\ activeVoucher = NullVoucher
    /\ page = "issue"
    /\ now = 1
    /\ lastOp = Op("mount", TRUE, 0, 0, 0)
    /\ nOps = 0

\* a reload that keeps the preview of the session before it
Reload_KeepsPreview ==
    /\ nOps < MaxOps
    /\ students' = InitialStudents(storage)
    /\ vouchers' = InitialVouchers(storage)
    /\ selectedStudentId' = InitialSelectedStudentId
    /\ page' = "issue"
    /\ lastOp' = Op("mount", TRUE, 0, 0, 0)
    /\ nOps' = nOps + 1
    /\ UNCHANGED <<activeVoucher, storage, cryptoAvailable, now>>

\* the page is loaded again: a new session is constructed from storage
Reload ==
    /\ nOps < MaxOps
    /\ students' = InitialStudents(storage)
    /\ vouchers' = InitialVouchers(storage)
    /\ selectedStudentId' = InitialSelectedStudentId
    /\ activeVoucher' = NullVoucher
    /\ page' = "issue"
    /\ lastOp' = Op("mount", TRUE, 0, 0, 0)
    /\ nOps' = nOps + 1
    /\ UNCHANGED <<storage, cryptoAvailable, now>>

----------------------------------------------------------------------------
(* The handlers *)

\* the navigation buttons
SetPage(p) ==
    /\ nOps < MaxOps
    /\ page' = p
    /\ lastOp' = Op("page", TRUE, 0, 0, 0)
    /\ nOps' = nOps + 1
    /\ UNCHANGED <<students, vouchers, selectedStudentId, activeVoucher,
                   storage, cryptoAvailable, now>>

\* a click on a row of the roster
SelectStudent(i) ==
    /\ nOps < MaxOps
    /\ selectedStudentId' = students[i].id
    /\ lastOp' = Op("select", TRUE, 0, 0, 0)
    /\ nOps' = nOps + 1
    /\ UNCHANGED <<students, vouchers, activeVoucher, page, storage,
                   cryptoAvailable, now>>

handleAdjustCommendations(id, delta, writeOk) ==
    /\ nOps < MaxOps
    /\ students' = SetAndStoreValue(students,
                                    AdjustUpdater(students, id, delta), writeOk)
    /\ storage' = SetAndStore(storage, STUDENTS_KEY,
                              AdjustUpdater(students, id, delta), writeOk)
    /\ lastOp' = [Op("adjust", FindIndex(students, id) # 0,
                     FindIndex(students, id),
                     IF FindIndex(students, id) # 0
                     THEN students[FindIndex(students, id)].commendations
                     ELSE 0,
                     delta)
                  EXCEPT !.failed = Failed(STUDENTS_KEY, writeOk)]
    /\ nOps' = nOps + 1
    /\ UNCHANGED <<vouchers, selectedStudentId, activeVoucher, page,
                   cryptoAvailable, now>>

\* the run of consecutive issue requests this request continues: the number
\* of them that succeeded, and the selected student's balance when it began
RunSoFar == IF lastOp.op = "issue" THEN lastOp.run ELSE 0
RunStart ==
    IF lastOp.op = "issue" THEN lastOp.runStart
    ELSE IF selectedStudent = NullStudent THEN 0
    ELSE selectedStudent.commendations

\* The point between the two updaters of an issuance.  eager: React runs the
\* updater of setVouchers inside the setVouchers call (the update queue of
\* the component is empty) and the updater of setStudents in the render that
\* follows; otherwise both run in that render, in the order of the hooks
\* (students, then vouchers).  Each updater writes its record before it
\* returns, so at this point one record has been written and the other
\* collection has not been updated.
MidPoint(eager, nextVouchers, nextStudents, logWriteOk, rosterWriteOk) ==
    LET afterFirst ==
            IF eager
            THEN SetAndStore(storage, LOG_KEY, nextVouchers, logWriteOk)
            ELSE SetAndStore(storage, STUDENTS_KEY, nextStudents,
                             rosterWriteOk)
    IN  [wrote |-> afterFirst # storage,
         storedLog |-> afterFirst[LOG_KEY],
         students |-> IF eager THEN students ELSE nextStudents]

handleIssueVoucher(random, time, logWriteOk, rosterWriteOk) ==
    /\ nOps < MaxOps
    /\ nOps' = nOps + 1
    /\ IF selectedStudent = NullStudent \/ ~canIssue
       THEN /\ lastOp' = [Op("issue", FALSE,
                             IF selectedStudent = NullStudent THEN 0
                             ELSE FindIndex(students, selectedStudent.id),
                             IF selectedStudent = NullStudent THEN 0
                             ELSE selectedStudent.commendations,
                             0)
                          EXCEPT !.run = RunSoFar, !.runStart = RunStart]
            /\ UNCHANGED <<students, vouchers, selectedStudentId,
                           activeVoucher, page, storage, cryptoAvailable,
                           now>>
       ELSE LET voucher == NewVoucher(selectedStudent,
                                      generateId(cryptoAvailable, random, time),
                                      time)
                nextVouchers == PrependUpdater(vouchers, voucher)
                nextStudents == DebitUpdater(students, selectedStudent.id)
            IN  /\ now' = time
                /\ vouchers' =
                      SetAndStoreValue(vouchers, nextVouchers, logWriteOk)
                /\ students' =
                      SetAndStoreValue(students, nextStudents, rosterWriteOk)
                /\ storage' =
                      SetAndStore(SetAndStore(storage, LOG_KEY, nextVouchers,
                                              logWriteOk),
                                  STUDENTS_KEY, nextStudents, rosterWriteOk)
                /\ activeVoucher' = voucher
                /\ lastOp' = [Op("issue", TRUE,
                                 FindIndex(students, selectedStudent.id),
                                 selectedStudent.commendations,
                                 0 - TARGET_COMMENDATIONS)
                              EXCEPT !.failed =
                                         Failed(LOG_KEY, logWriteOk)
                                         \cup Failed(STUDENTS_KEY,
                                                     rosterWriteOk),
                                     !.mids =
                                         {MidPoint(eager, nextVouchers,
                                                   nextStudents, logWriteOk,
                                                   rosterWriteOk) :
                                             eager \in BOOLEAN},
                                     !.run = RunSoFar + 1,
                                     !.runStart = RunStart]
                /\ UNCHANGED <<selectedStudentId, page, cryptoAvailable>>

handleReopenVoucher(i) ==
    /\ nOps < MaxOps
    /\ activeVoucher' = vouchers[i]
    /\ page' = "issue"
    /\ lastOp' = Op("reopen", TRUE, 0, 0, 0)
    /\ nOps' = nOps + 1
    /\ UNCHANGED <<students, vouchers, selectedStudentId, storage,
                   cryptoAvailable, now>>

handleToggleRedeemed(voucherId, writeOk) ==
    /\ nOps < MaxOps
    /\ vouchers' = SetAndStoreValue(vouchers,
                                    ToggleUpdater(vouchers, voucherId), writeOk)
    /\ storage' = SetAndStore(storage, LOG_KEY,
                              ToggleUpdater(vouchers, voucherId), writeOk)
    /\ lastOp' = [Op("toggle", FindIndex(vouchers, voucherId) # 0, 0, 0, 0)
                  EXCEPT !.failed = Failed(LOG_KEY, writeOk)]
    /\ nOps' = nOps + 1
    /\ UNCHANGED <<students, selectedStudentId, activeVoucher, page,
                   cryptoAvailable, now>>

\* a close that discards the voucher it was showing
ClosePreview_Discard ==
    /\ nOps < MaxOps
    /\ activeVoucher # NullVoucher
    /\ activeVoucher' = NullVoucher
    /\ vouchers' = SelectSeq(vouchers, LAMBDA v : v.id # activeVoucher.id)
    /\ storage' = SetAndStore(storage, LOG_KEY, vouchers', TRUE)
    /\ lastOp' = Op("close", TRUE, 0, 0, 0)
    /\ nOps' = nOps + 1
    /\ UNCHANGED <<students, selectedStudentId, page, cryptoAvailable, now>>

\* the two close buttons of the preview, rendered while a voucher is active
ClosePreview ==
    /\ nOps < MaxOps
    /\ activeVoucher # NullVoucher
    /\ activeVoucher' = NullVoucher
    /\ lastOp' = Op("close", TRUE, 0, 0, 0)
    /\ nOps' = nOps + 1
    /\ UNCHANGED <<students, vouchers, selectedStudentId, page, storage,
                   cryptoAvailable, now>>

StudentIds == {students[i].id : i \in 1..Len(students)} \cup {UnknownStudentId}
VoucherIds == {vouchers[i].id : i \in 1..Len(vouchers)} \cup {UnknownVoucherId}

Next ==
    \/ Reload
    \/ \E p \in {"issue", "log"} : SetPage(p)
    \/ \E i \in 1..Len(students) : SelectStudent(i)
    \/ \E id \in StudentIds, delta \in Deltas, writeOk \in BOOLEAN :
          handleAdjustCommendations(id, delta, writeOk)
    \/ \E random \in 1..MaxRandom, time \in {now, now + 1} \cap (1..MaxClock),
          logWriteOk \in BOOLEAN, rosterWriteOk \in BOOLEAN :
          handleIssueVoucher(random, time, logWriteOk, rosterWriteOk)
    \/ \E i \in 1..Len(vouchers) : handleReopenVoucher(i)
    \/ \E voucherId \in VoucherIds, writeOk \in BOOLEAN :
          handleToggleRedeemed(voucherId, writeOk)
    \/ ClosePreview

Spec == Init /\ [][Next]_vars

\* the same handlers on a storage whose setItem never throws
NextDurable ==
    \/ Reload
    \/ \E p \in {"issue", "log"} : SetPage(p)
    \/ \E i \in 1..Len(students) : SelectStudent(i)
    \/ \E id \in StudentIds, delta \in Deltas :
          handleAdjustCommendations(id, delta, TRUE)
    \/ \E random \in 1..MaxRandom, time \in {now, now + 1} \cap (1..MaxClock) :
          handleIssueVoucher(random, time, TRUE, TRUE)
    \/ \E i \in 1..Len(vouchers) : handleReopenVoucher(i)
    \/ \E voucherId \in VoucherIds : handleToggleRedeemed(voucherId, TRUE)
    \/ ClosePreview

SpecDurable == Init /\ [][NextDurable]_vars

----------------------------------------------------------------------------
(* Vocabulary of the properties *)

\* a step in which the named handler ran
Ran(name) == nOps' = nOps + 1 /\ lastOp'.op = name

Frozen(voucher) ==
    [id |-> voucher.id, studentId |-> voucher.studentId,
     studentName |-> voucher.studentName, issuedAt |-> voucher.issuedAt,
     amountPence |-> voucher.amountPence]

FrozenLedger(ledger) == [i \in 1..Len(ledger) |-> Frozen(ledger[i])]

IdsOf(ledger) == {ledger[i].id : i \in 1..Len(ledger)}

IdsUnique(ledger) ==
    \A i, j \in 1..Len(ledger) : i # j => ledger[i].id # ledger[j].id

IsSuffix(s, t) ==
    /\ Len(s) <= Len(t)
    /\ \A i \in 1..Len(s) : s[i] = t[i + Len(t) - Len(s)]

----------------------------------------------------------------------------
(* C1. Threshold gate: an issue request made while no student is selected  *)
(* (empty roster) or while the selected student has fewer than 5           *)
(* commendations is rejected and changes neither the roster, the ledger,   *)
(* the active voucher nor the two stored records; and in every issue step  *)
(* the roster is debited exactly when a voucher is added.                  *)
C1_ThresholdGate ==
    [][Ran("issue") =>
          /\ (selectedStudent = NullStudent
                \/ selectedStudent.commendations < TARGET_COMMENDATIONS)
             => /\ ~lastOp'.ok
                /\ UNCHANGED <<students, vouchers, activeVoucher, storage>>
          /\ (students' # students) <=> (Len(vouchers') = Len(vouchers) + 1)
          /\ (students' = students) <=> (vouchers' = vouchers)]_vars

C1_Witness ==
    /\ lastOp.op = "issue"
    /\ ~lastOp.ok
    /\ selectedStudent # NullStudent
    /\ selectedStudent.commendations = 4

(* C2. Atomic debit: a successful issuance leaves the selected student     *)
(* with max(0, before - 5) commendations (5 becomes 0, 7 becomes 2), grows *)
(* the ledger by exactly one entry and changes no other student.           *)
C2_AtomicDebit ==
    [][(Ran("issue") /\ lastOp'.ok) =>
          LET i == FindIndex(students, selectedStudent.id)
              before == students[i].commendations
          IN  /\ before >= TARGET_COMMENDATIONS
              /\ Len(students') = Len(students)
              /\ students'[i].commendations =
                    Max(0, before - TARGET_COMMENDATIONS)
              /\ before = 5 => students'[i].commendations = 0
              /\ before = 7 => students'[i].commendations = 2
              /\ \A j \in 1..Len(students) : j # i => students'[j] = students[j]
              /\ Len(vouchers') = Len(vouchers) + 1]_vars

C2_Witness ==
    /\ lastOp.op = "issue"
    /\ lastOp.ok
    /\ lastOp.before = 7
    /\ students[lastOp.target].commendations = 2

(* C3. Non-negativity: in every reachable state every student's            *)
(* commendations are >= 0, whatever deltas were handed to adjust and       *)
(* however adjustments interleave with issuances and toggles.              *)
C3_NonNegative ==
    \A i \in 1..Len(students) : students[i].commendations >= 0

\* a decrement of a student who has 0 commendations has just run
C3_Witness ==
    /\ lastOp.op = "adjust"
    /\ lastOp.ok
    /\ lastOp.before = 0
    /\ lastOp.delta < 0
    /\ students[lastOp.target].commendations = 0

C5_MostRecentFirst ==
    [][/\ (Ran("issue") /\ lastOp'.ok) =>
            /\ vouchers' = <<activeVoucher'>> \o vouchers
            /\ Tail(vouchers') = vouchers
       /\ (nOps' = nOps + 1 /\ lastOp'.op \notin {"issue", "mount"}) =>
            FrozenLedger(vouchers') = FrozenLedger(vouchers)
       /\ Ran("mount") =>
            IsSuffix(FrozenLedger(vouchers'), FrozenLedger(vouchers))
       /\ \A i, j \in 1..Len(vouchers') :
            i < j => vouchers'[i].issuedAt >= vouchers'[j].issuedAt]_vars

\* a voucher has been issued in front of an older one
C5_Witness ==
    /\ lastOp.op = "issue"
    /\ lastOp.ok
    /\ Len(vouchers) >= 2
    /\ vouchers[1] = activeVoucher
    /\ vouchers[1].issuedAt >= vouchers[2].issuedAt

(* C6. Snapshot immutability: under every handler of a session the id,     *)
(* studentId, studentName, issuedAt and amountPence of each voucher of the *)
(* ledger stay as they are, also when the roster holds another name for    *)
(* the student; only redeemed may change.                                  *)
C6_SnapshotImmutable ==
    [][(nOps' = nOps + 1 /\ lastOp'.op # "mount") =>
          /\ Len(vouchers') >= Len(vouchers)
          /\ \A i \in 1..Len(vouchers) :
                LET v == vouchers[i]
                    w == vouchers'[i + Len(vouchers') - Len(vouchers)]
                IN  /\ w.id = v.id
                    /\ w.studentId = v.studentId
                    /\ w.studentName = v.studentName
                    /\ w.issuedAt = v.issuedAt
                    /\ w.amountPence = v.amountPence]_vars

\* after two handler calls the ledger holds a voucher whose student has
\* another name in the roster, and one that has been redeemed
C6_Witness ==
    /\ nOps >= 2
    /\ \E i \in 1..Len(vouchers), j \in 1..Len(students) :
          /\ vouchers[i].studentId = students[j].id
          /\ vouchers[i].studentName # students[j].name
    /\ \E i \in 1..Len(vouchers) : vouchers[i].redeemed

(* C7. Toggle is an involution: for every ledger the program reaches and   *)
(* every voucher id in it, one application of the toggle flips the         *)
(* redeemed flag of the voucher with that id, and a second application     *)
(* gives back the original ledger.                                         *)
C7_ToggleInvolution ==
    \A i \in 1..Len(vouchers) :
        LET once == ToggleUpdater(vouchers, vouchers[i].id)
            twice == ToggleUpdater(once, vouchers[i].id)
        IN  /\ Len(once) = Len(vouchers)
            /\ once[i].redeemed = ~vouchers[i].redeemed
            /\ twice = vouchers

\* the toggle handler has run on a voucher of the ledger, which is redeemed
C7_Witness ==
    /\ lastOp.op = "toggle"
    /\ lastOp.ok
    /\ \E i \in 1..Len(vouchers) : vouchers[i].redeemed

(* C8. NotFound is a silent no-op: adjust with a student id that is not in *)
(* the roster, and toggle with a voucher id that is not in the ledger,     *)
(* complete and leave the roster and the ledger exactly as they were.      *)
C8_NotFoundNoOp ==
    [][((Ran("adjust") \/ Ran("toggle")) /\ ~lastOp'.ok) =>
          /\ students' = students
          /\ vouchers' = vouchers]_vars

C8_Witness ==
    /\ lastOp.op = "adjust"
    /\ ~lastOp.ok
    /\ Len(students) > 0
    /\ Len(vouchers) > 0

(* C9. adjustCommendations(id, delta) on a student of the roster sets that *)
(* student's commendations to max(0, commendations + delta), with no upper *)
(* bound, and leaves the student's id and name, every other student, the   *)
(* order of the roster and the ledger unchanged.                           *)
C9_AdjustExact ==
    [][(Ran("adjust") /\ lastOp'.ok) =>
          LET i == lastOp'.target
          IN  /\ students' =
                    [students EXCEPT ![i].commendations =
                        Max(0, students[i].commendations + lastOp'.delta)]
              /\ students'[i].commendations >= 0
              /\ lastOp'.delta > 0 =>
                    students'[i].commendations > students[i].commendations
              /\ vouchers' = vouchers]_vars

\* an increment has taken a student above the threshold
C9_Witness ==
    /\ lastOp.op = "adjust"
    /\ lastOp.ok
    /\ lastOp.delta > 0
    /\ lastOp.before >= TARGET_COMMENDATIONS
    /\ students[lastOp.target].commendations = lastOp.before + lastOp.delta

(* C10. Permanent log: within a session every voucher of the ledger is     *)
(* still in the ledger after every handler, the length of the ledger never *)
(* decreases, and it grows, by one, only in a successful issuance.         *)
C10_PermanentLog ==
    [][(nOps' = nOps + 1 /\ lastOp'.op # "mount") =>
          /\ \A i \in 1..Len(vouchers) :
                \E j \in 1..Len(vouchers') :
                    Frozen(vouchers'[j]) = Frozen(vouchers[i])
          /\ Len(vouchers') >= Len(vouchers)
          /\ Len(vouchers') # Len(vouchers) =>
                /\ lastOp'.op = "issue"
                /\ lastOp'.ok
                /\ Len(vouchers') = Len(vouchers) + 1]_vars

\* a handler other than issue has run on a ledger of two vouchers
C10_Witness ==
    /\ lastOp.op \in {"toggle", "close", "adjust", "reopen"}
    /\ Len(vouchers) >= 2

(* C11. Persistence round trip: while the writes of the storage succeed,   *)
(* after every handler each record of the storage holds the whole current  *)
(* value of its collection, so that a session started at that moment loads *)
(* exactly the roster and the ledger the session before it ended with.     *)
C11_RoundTrip ==
    /\ InitialStudents(storage) = students
    /\ InitialVouchers(storage) = vouchers
    /\ students # DEMO_STUDENTS => storage[STUDENTS_KEY] = Stringify(students)
    /\ vouchers # <<>> => storage[LOG_KEY] = Stringify(vouchers)

\* a session has started after an issuance and a redemption of the session
\* before it
C11_Witness ==
    /\ lastOp.op = "mount"
    /\ nOps >= 3
    /\ \E i \in 1..Len(vouchers) :
          vouchers[i].issuedAt >= 1 /\ vouchers[i].redeemed
    /\ students \notin {DEMO_STUDENTS, PriorRoster}

(* C12. Issuance write ordering: in a successful issuance no record has    *)
(* been written at a point where only one of the two collections has been  *)
(* updated; in particular there is no such point at which the stored       *)
(* ledger holds the new voucher while the roster in memory still has the   *)
(* balance of before the debit.  The code does not have this property:     *)
(* each updater writes its record before it returns.                       *)
C12_UpdatesBeforeWrites ==
    (lastOp.op = "issue" /\ lastOp.ok) =>
        \A m \in lastOp.mids :
            /\ ~m.wrote
            /\ ~ /\ \E j \in 1..Len(LoadState(m.storedLog, <<>>)) :
                        LoadState(m.storedLog, <<>>)[j].id = vouchers[1].id
                 /\ m.students[lastOp.target].commendations = lastOp.before

(* C13. Load fallback: at the start of a session a collection whose record *)
(* is missing or cannot be parsed is its default (the seed roster, the     *)
(* empty ledger), and a collection whose record can be parsed is the       *)
(* stored value, whatever the state of the other record.                   *)
C13_LoadFallback ==
    lastOp.op = "mount" =>
        /\ storage[STUDENTS_KEY] \in {Missing, Corrupt} =>
              students = DEMO_STUDENTS
        /\ storage[LOG_KEY] \in {Missing, Corrupt} => vouchers = <<>>
        /\ storage[STUDENTS_KEY].kind = "json" =>
              Stringify(students) = storage[STUDENTS_KEY]
        /\ storage[LOG_KEY].kind = "json" =>
              Stringify(vouchers) = storage[LOG_KEY]

\* a session has started on an unreadable roster record and a ledger record
\* that the session before it wrote: seed roster, stored ledger
C13_Witness ==
    /\ lastOp.op = "mount"
    /\ nOps >= 2
    /\ storage[STUDENTS_KEY] = Corrupt
    /\ students = DEMO_STUDENTS
    /\ \E i \in 1..Len(vouchers) : vouchers[i].redeemed

(* C14. Write failures swallowed: a handler in which a write of the storage *)
(* threw completes, the roster and the ledger in memory take exactly the   *)
(* values the updaters compute (the ones they take when the write works),  *)
(* the record whose write threw keeps its old content, and the handlers    *)
(* that follow work on the values in memory.                               *)
C14_WriteFailureSwallowed ==
    [][(nOps' = nOps + 1 /\ lastOp'.failed # {}) =>
          /\ lastOp'.op \in {"adjust", "issue", "toggle"}
          /\ \A key \in lastOp'.failed : storage'[key] = storage[key]
          /\ lastOp'.op = "adjust" =>
                /\ students' =
                      AdjustUpdater(students,
                                    IF lastOp'.target = 0 THEN UnknownStudentId
                                    ELSE students[lastOp'.target].id,
                                    lastOp'.delta)
                /\ vouchers' = vouchers
          /\ lastOp'.op = "issue" =>
                /\ lastOp'.ok
                /\ canIssue
                /\ students' = DebitUpdater(students, selectedStudent.id)
                /\ vouchers' = <<activeVoucher'>> \o vouchers
                /\ activeVoucher' # NullVoucher
          /\ lastOp'.op = "toggle" =>
                /\ \E voucherId \in VoucherIds :
                      /\ vouchers' = ToggleUpdater(vouchers, voucherId)
                      /\ lastOp'.ok <=> voucherId # UnknownVoucherId
                /\ students' = students]_vars

\* a voucher has been issued on a balance that two credits raised to the
\* threshold in memory only: no write of the session has succeeded
C14_Witness ==
    /\ lastOp.op = "issue"
    /\ lastOp.ok
    /\ lastOp.failed = {STUDENTS_KEY, LOG_KEY}
    /\ storage = [k \in {STUDENTS_KEY, LOG_KEY} |-> Missing]
    /\ lastOp.target = 1
    /\ lastOp.before = TARGET_COMMENDATIONS
    /\ students[1].id = DEMO_STUDENTS[1].id
    /\ Len(vouchers) = 1

(* C15. Selection fallback: the selected student is the entry of the       *)
(* roster whose id is the selected id when there is one, the first entry   *)
(* of the roster when there is none, and null exactly when the roster is   *)
(* empty.                                                                  *)
C15_SelectionFallback ==
    /\ (\E i \in 1..Len(students) : students[i].id = selectedStudentId) =>
          /\ \E i \in 1..Len(students) : students[i] = selectedStudent
          /\ selectedStudent.id = selectedStudentId
    /\ (/\ \A i \in 1..Len(students) : students[i].id # selectedStudentId
        /\ Len(students) > 0) =>
          selectedStudent = students[1]
    /\ selectedStudent = NullStudent <=> Len(students) = 0

\* after an adjustment the selected id names no entry of the roster and the
\* first entry is the selected student
C15_Witness ==
    /\ lastOp.op = "adjust"
    /\ Len(students) > 0
    /\ \A i \in 1..Len(students) : students[i].id # selectedStudentId
    /\ selectedStudent = students[1]

(* C16. Closing the preview only clears the active voucher: the ledger,    *)
(* the roster, the selection, the page and both stored records are         *)
(* unchanged.  Reopening a voucher of the log only sets the active voucher *)
(* to that entry and the page to "issue", and leaves the rest unchanged.   *)
C16_CloseAndReopen ==
    [][/\ Ran("close") =>
             /\ activeVoucher' = NullVoucher
             /\ UNCHANGED <<students, vouchers, storage, selectedStudentId,
                            page>>
       /\ Ran("reopen") =>
             /\ \E i \in 1..Len(vouchers) : activeVoucher' = vouchers[i]
             /\ page' = "issue"
             /\ UNCHANGED <<students, vouchers, storage,
                            selectedStudentId>>]_vars

\* the preview of a voucher of an earlier session, opened from the log, has
\* been closed
C16_Witness ==
    /\ lastOp.op = "close"
    /\ activeVoucher = NullVoucher
    /\ Len(vouchers) >= 1
    /\ \A i \in 1..Len(vouchers) : vouchers[i].issuedAt = 0

(* C17. The new voucher is a snapshot: after a successful issuance the     *)
(* first voucher of the ledger carries the id and the name the selected    *)
(* student has in the roster of the session, the amount 290, the time of   *)
(* the issuance and redeemed = false, and it is the active voucher.        *)
C17_VoucherSnapshot ==
    (lastOp.op = "issue" /\ lastOp.ok) =>
        /\ vouchers[1].studentId = selectedStudent.id
        /\ vouchers[1].studentName = selectedStudent.name
        /\ students[lastOp.target].id = vouchers[1].studentId
        /\ students[lastOp.target].name = vouchers[1].studentName
        /\ vouchers[1].amountPence = 290
        /\ vouchers[1].redeemed = FALSE
        /\ vouchers[1].issuedAt = now
        /\ activeVoucher = vouchers[1]

\* a voucher has been issued to a student whose name in the stored roster
\* differs from the name in the seed roster
C17_Witness ==
    /\ lastOp.op = "issue"
    /\ lastOp.ok
    /\ vouchers[1].studentName = PriorRoster[1].name
    /\ vouchers[1].studentName # DEMO_STUDENTS[2].name
    /\ vouchers[1].studentId = DEMO_STUDENTS[2].id

(* C18. No double issuing: the balance the eligibility check read is the   *)
(* balance the debit is applied to, so a successful issuance starts from   *)
(* at least 5 and leaves exactly 5 less (the clamp at 0 never takes        *)
(* effect); after an issuance from a balance of 5 to 9 the student is not  *)
(* eligible, and a run of issue requests that began at such a balance      *)
(* holds at most one success.                                              *)
C18_NoDoubleIssue ==
    lastOp.op = "issue" =>
        /\ lastOp.ok =>
              /\ lastOp.before >= TARGET_COMMENDATIONS
              /\ students[lastOp.target].commendations =
                    lastOp.before - TARGET_COMMENDATIONS
              /\ lastOp.before < 2 * TARGET_COMMENDATIONS => ~canIssue
        /\ lastOp.runStart < 2 * TARGET_COMMENDATIONS => lastOp.run <= 1

\* a second issuance in a row has taken a balance of 7 to 2
C18_Witness ==
    /\ lastOp.op = "issue"
    /\ lastOp.ok
    /\ lastOp.run = 2
    /\ lastOp.before > TARGET_COMMENDATIONS
    /\ lastOp.before < 2 * TARGET_COMMENDATIONS
    /\ students[lastOp.target].commendations > 0
    /\ ~canIssue

(* C19. Bounded repeated issuance: in a run of consecutive issue requests  *)
(* for a selected student who had c commendations when the run began, the  *)
(* requests succeed until floor(c / 5) of them have, each leaving 5 less,  *)
(* and every request after that is rejected with c mod 5 left.             *)
C19_BoundedRepeatedIssuance ==
    lastOp.op = "issue" =>
        LET c == lastOp.runStart
            k == lastOp.run
            balance == IF lastOp.target = 0 THEN 0
                       ELSE students[lastOp.target].commendations
        IN  /\ k <= c \div TARGET_COMMENDATIONS
            /\ lastOp.ok => balance = c - k * TARGET_COMMENDATIONS
            /\ ~lastOp.ok =>
                  /\ k = c \div TARGET_COMMENDATIONS
                  /\ balance = c % TARGET_COMMENDATIONS
                  /\ ~canIssue

\* two requests have succeeded on a balance of 12 and the third has been
\* rejected with 2 left
C19_Witness ==
    /\ lastOp.op = "issue"
    /\ ~lastOp.ok
    /\ lastOp.run = 2
    /\ lastOp.runStart = PriorRoster[1].commendations
    /\ students[lastOp.target].commendations = 2

(* C20. No orphaned voucher at creation: in every successful issuance the  *)
(* studentId of the new voucher is the id of an entry of the roster, that  *)
(* entry is the one whose balance is lowered by 5, and no other entry      *)
(* changes; this includes a selection resolved by the fallback to the      *)
(* first student.                                                          *)
C20_NoOrphanedVoucher ==
    [][(Ran("issue") /\ lastOp'.ok) =>
          /\ \E i \in 1..Len(students) :
                students[i].id = vouchers'[1].studentId
          /\ Len(students') = Len(students)
          /\ \A i \in 1..Len(students) :
                IF students[i].id = vouchers'[1].studentId
                THEN students'[i] =
                        [students[i] EXCEPT
                            !.commendations = @ - TARGET_COMMENDATIONS]
                ELSE students'[i] = students[i]]_vars

\* a voucher has been issued to the first student of a roster that does not
\* contain the selected id, and that student has been debited
C20_Witness ==
    /\ lastOp.op = "issue"
    /\ lastOp.ok
    /\ \A i \in 1..Len(students) : students[i].id # selectedStudentId
    /\ vouchers[1].studentId = students[1].id
    /\ lastOp.target = 1
    /\ students[1].commendations = lastOp.before - TARGET_COMMENDATIONS

(* C21. Roster identity is constant: no handler of a session (adjust,      *)
(* issue, toggle, select, reopen, close, page) adds or removes a student,  *)
(* changes the id or the name of a student or the order of the roster;     *)
(* only commendation counts change.                                        *)
C21_RosterIdentityConstant ==
    [][(nOps' = nOps + 1 /\ lastOp'.op # "mount") =>
          /\ Len(students') = Len(students)
          /\ \A i \in 1..Len(students) :
                /\ students'[i].id = students[i].id
                /\ students'[i].name = students[i].name
                /\ students'[i] =
                      [students[i] EXCEPT
                          !.commendations = students'[i].commendations]]_vars

\* an adjustment has taken a student of the stored roster to 0 after an
\* issuance, and the roster still has the ids and names it was loaded with
C21_Witness ==
    /\ lastOp.op = "adjust"
    /\ lastOp.ok
    /\ nOps >= 2
    /\ Len(vouchers) >= 1
    /\ students[lastOp.target].commendations = 0
    /\ lastOp.before > 0
    /\ Len(students) = Len(PriorRoster)
    /\ \A i \in 1..Len(students) :
          /\ students[i].id = PriorRoster[i].id
          /\ students[i].name = PriorRoster[i].name

(* C22. The active voucher is always a ledger entry: whenever the active   *)
(* voucher is not null the ledger holds a voucher with the same id,        *)
(* studentId, studentName, issuedAt and amountPence, and right after a     *)
(* successful issuance the active voucher is the first voucher of the      *)
(* ledger.                                                                 *)
C22_ActiveVoucherInLedger ==
    /\ activeVoucher # NullVoucher =>
          \E i \in 1..Len(vouchers) :
              Frozen(vouchers[i]) = Frozen(activeVoucher)
    /\ (lastOp.op = "issue" /\ lastOp.ok) =>
          /\ activeVoucher # NullVoucher
          /\ Len(vouchers) >= 1
          /\ vouchers[1] = activeVoucher

\* the voucher shown in the preview has been redeemed in the log: the active
\* voucher is a copy of the ledger entry as it was before the toggle
C22_Witness ==
    /\ lastOp.op = "toggle"
    /\ lastOp.ok
    /\ activeVoucher # NullVoucher
    /\ \E i \in 1..Len(vouchers) :
          /\ Frozen(vouchers[i]) = Frozen(activeVoucher)
          /\ vouchers[i].redeemed # activeVoucher.redeemed

\* the positions of the ledger whose redeemed flag a step has changed
Flipped ==
    {i \in 1..Len(vouchers) : vouchers'[i].redeemed # vouchers[i].redeemed}

====
